---- MODULE Spec2Model ----
(***************************************************************************)
(* Model of btgym/algorithms/worker.py: the body of Worker.run for every   *)
(* process of a distributed tf cluster (parameter server and workers).     *)
(* One process is one Worker object; pc[p] is the position of process p in *)
(* Worker.run.  The tf.train.Server, tf.train.Supervisor, environment and  *)
(* trainer objects are collaborators: each call into them is one step      *)
(* whose outcome (return or raise, value returned) is drawn from the       *)
(* outcomes the call can have.                                             *)
(***************************************************************************)
EXTENDS Integers, Sequences, FiniteSets, TLC

VARIABLES
    job_name,          \* self.job_name of every process (worker.py:82)
    task,              \* self.task of every process (worker.py:83)
    max_train_steps,   \* self.max_train_steps (worker.py:85)
    reliable,          \* TRUE in a run whose collaborators return and advance the step
    pc,                \* position of every process in Worker.run
    role,              \* branch of the role dispatch the process entered
    servers,           \* cluster addresses <<job, task>> with a started tf.train.Server
    env,               \* self.env: "none", "open" or "closed"
    trainer,           \* TRUE once the trainer object is constructed
    sess,              \* the managed session: "none", "open" or "closed"
    should_stop,       \* sv.should_stop() of the process's Supervisor
    exc,               \* TRUE while an exception raised in the session body propagates
    exitcode,          \* exit status of the process, NoExit while it runs
    message,           \* what the process wrote when it ended
    var_init,          \* names of the parameter-server variables that are initialized
    local_init,        \* per process: names of its own initialized variables
    step_counter,      \* value of the shared tensor trainer.global_step
    checkpoint,        \* names of the variables written under logdir
    savers,            \* processes whose Supervisor wrote a checkpoint
    global_step,       \* the local variable global_step of Worker.run
    entry_step,        \* history: the value read at line 196
    processed,         \* history: TRUE once trainer.process was called
    memory,            \* history: what the test of worker.py:198-199 found
    calls,             \* history: per process, number of calls of each collaborator
    late               \* history: process calls started since the shared step reached the maximum

vars == <<job_name, task, max_train_steps, reliable, pc, role, servers, env, trainer, sess,
          should_stop, exc, exitcode, message, var_init, local_init, step_counter,
          checkpoint, savers, global_step, entry_step, processed, memory, calls, late>>

config == <<job_name, task, max_train_steps, reliable>>

----------------------------------------------------------------------------
(* Bounds of the model *)

\* largest max_train_steps a Worker is constructed with
MaxTrainSteps == 2
\* largest advance of the shared global step by one trainer.process call
MaxInc == 1

\* global_step before line 196 binds it
NoStep == -1
\* multiprocessing.Process.exitcode: None while the process runs, 0 when run
\* returns, 1 when run ends by an exception or by SystemExit with a string,
\* -SIGTERM when the process is terminated
NoExit == -1
ExitOk == 0
ExitFailure == 1
ExitTerminated == -15

Procs == DOMAIN job_name

\* launch plans: the Worker objects a launcher constructs for one cluster.
\* A cluster of a parameter server and two workers with the roles spelled as
\* documented, a cluster whose only worker got a role name the code does not
\* know, and a cluster whose parameter server got an abbreviated name.
LaunchPlans ==
    { [jobs |-> <<"ps", "worker", "worker">>, tasks |-> <<0, 0, 1>>],
      [jobs |-> <<"ps", "evaluator">>,        tasks |-> <<0, 0>>],
      [jobs |-> <<"p",  "worker">>,           tasks |-> <<0, 0>>] }

\* the cluster_spec every Worker of a plan is given: job name -> number of tasks
cluster_spec == [ps |-> 1, worker |-> Cardinality(Procs) - 1]

----------------------------------------------------------------------------
(* Pure helpers *)

\* Python's  s in t  for two strings: s is a substring of t
StrIn(s, t) ==
    \E i \in 0..(Len(t) - Len(s)) : SubSeq(t, i + 1, i + Len(s)) = s

\* Python's  name.startswith(prefix)
StartsWith(name, prefix) ==
    /\ Len(name) >= Len(prefix)
    /\ SubSeq(name, 1, Len(prefix)) = prefix

\* tf.global_variables() of a worker's graph: the shared network and step
\* counter, placed on the parameter server, and the worker's own copy
GlobalVariables == {"global/W", "global/global_step", "local/W"}

\* a saver built over every variable of the graph
variables_to_save_all == GlobalVariables

\* worker.py:160
variables_to_save == {v \in GlobalVariables : ~StartsWith(v, "local")}

\* names of the rank-private variables
LocalVariables == GlobalVariables \ variables_to_save

\* the dispatch written as a test for the worker role
IsWorkerName(name) == StrIn(name, "worker")

\* worker.py:105, the test of the role dispatch
IsParameterServer(name) == StrIn(name, "ps")

\* every rank made chief
is_chief_any(p) == task[p] >= 0

\* worker.py:181
is_chief(p) == task[p] = 0

\* a Supervisor given no ready_op: nothing is ever reported uninitialized
ready_op_none == {}

\* worker.py:187, tf.report_uninitialized_variables(variables_to_save)
ready_op == {v \in variables_to_save : v \notin var_init}

\* a loop that tests the step threshold only
LoopConditionNoStop(p) == global_step[p] < max_train_steps

\* the loop condition with the bound tested one step too far
LoopConditionInclusive(p) ==
    /\ ~should_stop[p]
    /\ global_step[p] <= max_train_steps

\* worker.py:203, the condition of the training loop
LoopCondition(p) ==
    /\ ~should_stop[p]
    /\ global_step[p] < max_train_steps

\* the replay memory filled without asking whether it is full
NeedsFillUnchecked(has_memory, is_full) == has_memory

\* worker.py:198-199, whether the replay memory is filled
NeedsFill(has_memory, is_full) == has_memory /\ ~is_full

\* the outcomes of a call of a collaborator: TRUE, it returns; FALSE, it raises
Outcomes == IF reliable THEN {TRUE} ELSE BOOLEAN

\* the advances of the shared step counter one trainer.process call can make
Advances == IF reliable THEN 1..MaxInc ELSE 0..MaxInc

\* a parameter server of the cluster answers
PsUp == \E a \in servers : a[1] = "ps"

NoMessage == [kind |-> "none", rank |-> NoStep, step |-> NoStep]
NoCalls == [make_env |-> 0, init_fn |-> 0, session |-> 0, sync |-> 0, start |-> 0,
            fill |-> 0, close |-> 0, stop |-> 0, release |-> 0]

----------------------------------------------------------------------------
(* Initial state: the Worker objects are constructed, none is started *)

\* no process is started yet
Started ==
    /\ pc = [p \in Procs |-> "new"]
    /\ role = [p \in Procs |-> "none"]
    /\ servers = {}
    /\ env = [p \in Procs |-> "none"]
    /\ trainer = [p \in Procs |-> FALSE]
    /\ sess = [p \in Procs |-> "none"]
    /\ should_stop = [p \in Procs |-> FALSE]
    /\ exc = [p \in Procs |-> FALSE]
    /\ exitcode = [p \in Procs |-> NoExit]
    /\ message = [p \in Procs |-> NoMessage]
    /\ var_init = {}
    /\ local_init = [p \in Procs |-> {}]
    /\ step_counter = 0
    /\ checkpoint = {}
    /\ savers = {}
    /\ memory = [p \in Procs |-> "unknown"]
    /\ global_step = [p \in Procs |-> NoStep]
    /\ entry_step = [p \in Procs |-> NoStep]
    /\ processed = [p \in Procs |-> FALSE]
    /\ calls = [p \in Procs |-> NoCalls]
    /\ late = [p \in Procs |-> 0]

Init ==
    /\ \E plan \in LaunchPlans :
          /\ job_name = plan.jobs
          /\ task = plan.tasks
    /\ max_train_steps \in 0..MaxTrainSteps
    /\ reliable = FALSE
    /\ Started

----------------------------------------------------------------------------
(* Outcomes shared by several steps *)

\* the cluster_spec names the address <<job, index>>
InCluster(job, index) ==
    /\ job \in DOMAIN cluster_spec
    /\ index < cluster_spec[job]

\* tf.train.Server(cluster, job_name=job, task_index=index) can be created:
\* the address is one of the cluster and no server holds it yet
CanServe(job, index) ==
    /\ InCluster(job, index)
    /\ <<job, index>> \notin servers

\* an exception leaves Worker.run uncaught: the process ends with a traceback
Die(p) ==
    /\ pc' = [pc EXCEPT ![p] = "failed"]
    /\ exitcode' = [exitcode EXCEPT ![p] = ExitFailure]
    /\ message' = [message EXCEPT ![p] = [kind |-> "traceback", rank |-> NoStep, step |-> NoStep]]

\* an exception is raised inside the body of the managed session
Raise(p) ==
    /\ pc' = [pc EXCEPT ![p] = "exit_session"]
    /\ exc' = [exc EXCEPT ![p] = TRUE]

Goto(p, label) == pc' = [pc EXCEPT ![p] = label]

Called(p, f) == calls' = [calls EXCEPT ![p][f] = @ + 1]

\* positions inside the with-block of worker.py:193-209
Body == {"sync", "start", "read_step", "fill", "loop", "process", "refresh",
         "close", "sv_stop"}

Ended == {"done", "failed", "killed"}

----------------------------------------------------------------------------
(* Role dispatch and cluster bootstrap, worker.py:102-126 *)

StartPsServer(p) ==
    /\ pc[p] = "new"
    /\ IsParameterServer(job_name[p])
    /\ role' = [role EXCEPT ![p] = "ps"]
    /\ IF CanServe(job_name[p], task[p])
         THEN /\ servers' = servers \cup {<<job_name[p], task[p]>>}
              /\ Goto(p, "join")
              /\ UNCHANGED <<exitcode, message>>
         ELSE /\ Die(p)
              /\ UNCHANGED servers
    /\ UNCHANGED <<config, env, trainer, sess, should_stop, exc, var_init, local_init,
                   step_counter, global_step, entry_step, processed, calls, late,
                   checkpoint, savers, memory>>

StartWorkerServer(p) ==
    /\ pc[p] = "new"
    /\ ~IsParameterServer(job_name[p])
    /\ role' = [role EXCEPT ![p] = "worker"]
    /\ IF CanServe("worker", task[p])
         THEN /\ servers' = servers \cup {<<"worker", task[p]>>}
              /\ Goto(p, "make_env")
              /\ UNCHANGED <<exitcode, message>>
         ELSE /\ Die(p)
              /\ UNCHANGED servers
    /\ UNCHANGED <<config, env, trainer, sess, should_stop, exc, var_init, local_init,
                   step_counter, global_step, entry_step, processed, calls, late,
                   checkpoint, savers, memory>>

\* server.join() of the parameter server never returns; the process ends only
\* when the launcher terminates it, which it does after its workers ended
Terminate(p) ==
    /\ pc[p] = "join"
    /\ \A q \in Procs \ {p} : pc[q] \in Ended
    /\ pc' = [pc EXCEPT ![p] = "killed"]
    /\ exitcode' = [exitcode EXCEPT ![p] = ExitTerminated]
    /\ servers' = servers \ {<<job_name[p], task[p]>>}
    /\ UNCHANGED <<config, role, env, trainer, sess, should_stop, exc, message, var_init,
                   local_init, step_counter, global_step, entry_step, processed, calls,
                   late, checkpoint, savers, memory>>

----------------------------------------------------------------------------
(* Environment and trainer, worker.py:128-157 *)

\* the exception of the factory swallowed: the run goes on without environment
EnvFailureIgnored(p, test_mode) ==
    /\ Goto(p, "make_trainer")
    /\ UNCHANGED <<env, exitcode, message>>

\* worker.py:135-136 and 143-144: the factory raised
EnvFailure(p, test_mode) ==
    /\ pc' = [pc EXCEPT ![p] = "failed"]
    /\ exitcode' = [exitcode EXCEPT ![p] = ExitFailure]
    /\ message' = [message EXCEPT ![p] =
                     [kind |-> IF test_mode THEN "failed to make Atari Gym environment"
                                            ELSE "failed to make BTgym environment",
                      rank |-> task[p], step |-> NoStep]]
    /\ UNCHANGED env

\* worker.py:128-146: the environment factory is called, in the mode test_mode
\* selects
MakeEnv(p) ==
    /\ pc[p] = "make_env"
    /\ Called(p, "make_env")
    /\ \E test_mode \in BOOLEAN, ok \in Outcomes :
          IF ok
            THEN /\ env' = [env EXCEPT ![p] = "open"]
                 /\ Goto(p, "make_trainer")
                 /\ UNCHANGED <<exitcode, message>>
            ELSE EnvFailure(p, test_mode)
    /\ UNCHANGED <<config, role, servers, trainer, sess, should_stop, exc, var_init,
                   local_init, step_counter, global_step, entry_step, processed, late,
                   checkpoint, savers, memory>>

\* worker.py:148-155
MakeTrainer(p) ==
    /\ pc[p] = "make_trainer"
    /\ \E ok \in Outcomes :
          IF ok
            THEN /\ trainer' = [trainer EXCEPT ![p] = TRUE]
                 /\ Goto(p, "make_sv")
                 /\ UNCHANGED <<exitcode, message>>
            ELSE /\ Die(p)
                 /\ UNCHANGED trainer
    /\ UNCHANGED <<config, role, servers, env, sess, should_stop, exc, var_init,
                   local_init, step_counter, global_step, entry_step, processed, calls,
                   late, checkpoint, savers, memory>>

----------------------------------------------------------------------------
(* Supervisor and barrier, worker.py:159-193 *)

\* worker.py:159-191: the saver, the initializers and the Supervisor are built
MakeSupervisor(p) ==
    /\ pc[p] = "make_sv"
    /\ Goto(p, "connect")
    /\ UNCHANGED <<config, role, servers, env, trainer, sess, should_stop, exc, exitcode,
                   message, var_init, local_init, step_counter, global_step, entry_step,
                   processed, calls, late, checkpoint, savers, memory>>

\* an initializer sets the step counter back to its initial value 0: the calls
\* counted as started since the step reached the maximum are counted anew
StepReset ==
    /\ step_counter' = 0
    /\ late' = IF step_counter >= max_train_steps /\ 0 < max_train_steps
                 THEN [q \in Procs |-> 0]
                 ELSE late

\* the chief's managed_session, first half of prepare_session: init_op
\* (worker.py:161, 185) is run on the parameter server
ChiefInitOp(p) ==
    /\ pc[p] = "connect"
    /\ is_chief(p)
    /\ PsUp
    /\ var_init' = var_init \cup variables_to_save
    /\ StepReset
    /\ Goto(p, "init_fn")
    /\ UNCHANGED <<config, role, servers, env, trainer, sess, should_stop, exc, exitcode,
                   message, local_init, global_step, entry_step, processed, calls,
                   checkpoint, savers, memory>>

\* worker.py:170-172: init_fn runs init_all_op (worker.py:162), the initializer
\* of every variable of tf.global_variables()
init_fn(p) ==
    /\ pc[p] = "init_fn"
    /\ var_init' = var_init \cup (GlobalVariables \ LocalVariables)
    /\ local_init' = [local_init EXCEPT ![p] = @ \cup LocalVariables]
    /\ StepReset
    /\ Called(p, "init_fn")
    /\ Goto(p, "ready")
    /\ UNCHANGED <<config, role, servers, env, trainer, sess, should_stop, exc, exitcode,
                   message, global_step, entry_step, processed, checkpoint, savers, memory>>

\* the chief's prepare_session ends with the ready_op (worker.py:187): the
\* session is handed to the body when it reports nothing, else it raises
ChiefReady(p) ==
    /\ pc[p] = "ready"
    /\ IF ready_op = {}
         THEN /\ sess' = [sess EXCEPT ![p] = "open"]
              /\ Called(p, "session")
              /\ Goto(p, "sync")
              /\ UNCHANGED exc
         ELSE /\ Raise(p)
              /\ UNCHANGED <<sess, calls>>
    /\ UNCHANGED <<config, role, servers, env, trainer, should_stop, exitcode, message,
                   var_init, local_init, step_counter, global_step, entry_step, processed,
                   late, checkpoint, savers, memory>>

\* a worker that is not chief waits in managed_session until the ready_op
\* (worker.py:187) reports no uninitialized variable
WaitForSession(p) ==
    /\ pc[p] = "connect"
    /\ ~is_chief(p)
    /\ PsUp
    /\ ready_op = {}
    /\ sess' = [sess EXCEPT ![p] = "open"]
    /\ Called(p, "session")
    /\ Goto(p, "sync")
    /\ UNCHANGED <<config, role, servers, env, trainer, should_stop, exc, exitcode,
                   message, var_init, local_init, step_counter, global_step, entry_step,
                   processed, late, checkpoint, savers, memory>>

\* worker.py:164, 183, 189: while the session of the chief is open, the
\* Supervisor's timer saves the variables of the saver under logdir
SaveModel(p) ==
    /\ is_chief(p)
    /\ pc[p] \in Body
    /\ ~should_stop[p]
    /\ checkpoint' = checkpoint \cup variables_to_save
    /\ savers' = savers \cup {p}
    /\ UNCHANGED <<config, pc, role, servers, env, trainer, sess, should_stop, exc, exitcode,
                   message, var_init, local_init, step_counter, global_step, entry_step,
                   processed, memory, calls, late>>

\* a service of the process's Supervisor requests the stop while the body runs
StopRequested(p) ==
    /\ pc[p] \in Body
    /\ ~should_stop[p]
    /\ should_stop' = [should_stop EXCEPT ![p] = TRUE]
    /\ UNCHANGED <<config, pc, role, servers, env, trainer, sess, exc, exitcode, message,
                   var_init, local_init, step_counter, global_step, entry_step, processed,
                   calls, late, checkpoint, savers, memory>>

----------------------------------------------------------------------------
(* The body of the managed session, worker.py:194-209 *)

\* a body that tests the stop flag first and goes straight to shutdown when set
SyncUnlessStopped(p) ==
    /\ pc[p] = "sync"
    /\ IF should_stop[p]
         THEN /\ Goto(p, "close")
              /\ UNCHANGED <<calls, local_init, exc>>
         ELSE /\ Called(p, "sync")
              /\ \E ok \in Outcomes :
                    IF ok
                      THEN /\ local_init' = [local_init EXCEPT ![p] = @ \cup LocalVariables]
                           /\ Goto(p, "start")
                           /\ UNCHANGED exc
                      ELSE /\ Raise(p)
                           /\ UNCHANGED local_init
    /\ UNCHANGED <<config, role, servers, env, trainer, sess, should_stop, exitcode,
                   message, var_init, step_counter, global_step, entry_step, processed,
                   late, checkpoint, savers, memory>>

\* worker.py:194: the shared network is copied into the worker's own copy
Sync(p) ==
    /\ pc[p] = "sync"
    /\ Called(p, "sync")
    /\ \E ok \in Outcomes :
          IF ok
            THEN /\ local_init' = [local_init EXCEPT ![p] = @ \cup LocalVariables]
                 /\ Goto(p, "start")
                 /\ UNCHANGED exc
            ELSE /\ Raise(p)
                 /\ UNCHANGED local_init
    /\ UNCHANGED <<config, role, servers, env, trainer, sess, should_stop, exitcode,
                   message, var_init, step_counter, global_step, entry_step, processed,
                   late, checkpoint, savers, memory>>

\* a body that goes on to read the step without starting the trainer
StartDeferred(p) ==
    /\ pc[p] = "start"
    /\ Goto(p, "read_step")
    /\ UNCHANGED <<config, role, servers, env, trainer, sess, should_stop, exc, exitcode,
                   message, var_init, local_init, step_counter, global_step, entry_step,
                   processed, calls, late, checkpoint, savers, memory>>

\* worker.py:195
Start(p) ==
    /\ pc[p] = "start"
    /\ Called(p, "start")
    /\ \E ok \in Outcomes :
          IF ok
            THEN /\ Goto(p, "read_step")
                 /\ UNCHANGED exc
            ELSE Raise(p)
    /\ UNCHANGED <<config, role, servers, env, trainer, sess, should_stop, exitcode,
                   message, var_init, local_init, step_counter, global_step, entry_step,
                   processed, late, checkpoint, savers, memory>>

\* worker.py:196
ReadStep(p) ==
    /\ pc[p] = "read_step"
    /\ global_step' = [global_step EXCEPT ![p] = step_counter]
    /\ entry_step' = [entry_step EXCEPT ![p] = step_counter]
    /\ Goto(p, "fill")
    /\ UNCHANGED <<config, role, servers, env, trainer, sess, should_stop, exc, exitcode,
                   message, var_init, local_init, step_counter, processed, calls, late,
                   checkpoint, savers, memory>>

\* worker.py:198-200
FillMemory(p) ==
    /\ pc[p] = "fill"
    /\ \E has_memory \in BOOLEAN, is_full \in BOOLEAN, ok \in Outcomes :
          /\ memory' = [memory EXCEPT ![p] =
                          IF ~has_memory THEN "none"
                          ELSE IF is_full THEN "full" ELSE "not_full"]
          /\ IF NeedsFill(has_memory, is_full)
               THEN /\ Called(p, "fill")
                    /\ IF ok
                         THEN /\ Goto(p, "loop")
                              /\ UNCHANGED exc
                         ELSE Raise(p)
               ELSE /\ Goto(p, "loop")
                    /\ UNCHANGED <<exc, calls>>
    /\ UNCHANGED <<config, role, servers, env, trainer, sess, should_stop, exitcode, message,
                   var_init, local_init, step_counter, global_step, entry_step, processed,
                   late, checkpoint, savers>>

\* worker.py:203: the loop condition is tested; when it holds trainer.process
\* is called (worker.py:204)
LoopTest(p) ==
    /\ pc[p] = "loop"
    /\ IF LoopCondition(p)
         THEN /\ Goto(p, "process")
              /\ processed' = [processed EXCEPT ![p] = TRUE]
              /\ late' = [late EXCEPT ![p] =
                            IF step_counter >= max_train_steps THEN @ + 1 ELSE @]
         ELSE /\ Goto(p, "close")
              /\ UNCHANGED <<processed, late>>
    /\ UNCHANGED <<config, role, servers, env, trainer, sess, should_stop, exc, exitcode,
                   message, var_init, local_init, step_counter, global_step, entry_step,
                   calls, checkpoint, savers, memory>>

\* a loop that catches the failure of an iteration and tries the next one
ProcessRetried(p) ==
    /\ pc[p] = "process"
    /\ \E inc \in Advances, ok \in Outcomes :
          /\ step_counter' = step_counter + inc
          /\ IF ok THEN Goto(p, "refresh") ELSE Goto(p, "loop")
    /\ UNCHANGED <<config, role, servers, env, trainer, sess, should_stop, exc, exitcode,
                   message, var_init, local_init, global_step, entry_step, processed,
                   calls, late, checkpoint, savers, memory>>

\* worker.py:204: the call of trainer.process runs one training iteration,
\* which advances the shared step counter, and returns or raises
Process(p) ==
    /\ pc[p] = "process"
    /\ \E inc \in Advances, ok \in Outcomes :
          /\ step_counter' = step_counter + inc
          /\ IF ok
               THEN /\ Goto(p, "refresh")
                    /\ UNCHANGED exc
               ELSE Raise(p)
    /\ UNCHANGED <<config, role, servers, env, trainer, sess, should_stop, exitcode,
                   message, var_init, local_init, global_step, entry_step, processed,
                   calls, late, checkpoint, savers, memory>>

\* the loop going on with the step it read before the iteration
RefreshSkipped(p) ==
    /\ pc[p] = "refresh"
    /\ Goto(p, "loop")
    /\ UNCHANGED <<config, role, servers, env, trainer, sess, should_stop, exc, exitcode,
                   message, var_init, local_init, step_counter, checkpoint, savers,
                   global_step, entry_step, processed, memory, calls, late>>

\* worker.py:205
Refresh(p) ==
    /\ pc[p] = "refresh"
    /\ global_step' = [global_step EXCEPT ![p] = step_counter]
    /\ Goto(p, "loop")
    /\ UNCHANGED <<config, role, servers, env, trainer, sess, should_stop, exc, exitcode,
                   message, var_init, local_init, step_counter, entry_step, processed,
                   calls, late, checkpoint, savers, memory>>

\* a shutdown that leaves the environment as it is
EnvCloseSkipped(p) ==
    /\ pc[p] = "close"
    /\ Goto(p, "sv_stop")
    /\ UNCHANGED <<config, role, servers, env, trainer, sess, should_stop, exc, exitcode,
                   message, var_init, local_init, step_counter, global_step, entry_step,
                   processed, calls, late, checkpoint, savers, memory>>

\* worker.py:208
EnvClose(p) ==
    /\ pc[p] = "close"
    /\ Called(p, "close")
    /\ \E ok \in Outcomes :
          IF ok
            THEN /\ env' = [env EXCEPT ![p] = "closed"]
                 /\ Goto(p, "sv_stop")
                 /\ UNCHANGED exc
            ELSE /\ Raise(p)
                 /\ UNCHANGED env
    /\ UNCHANGED <<config, role, servers, trainer, sess, should_stop, exitcode, message,
                   var_init, local_init, step_counter, global_step, entry_step, processed,
                   late, checkpoint, savers, memory>>

\* a body that leaves the stop of the services to the end of the session scope
SvStopSkipped(p) ==
    /\ pc[p] = "sv_stop"
    /\ Goto(p, "exit_session")
    /\ UNCHANGED <<config, role, servers, env, trainer, sess, should_stop, exc, exitcode,
                   message, var_init, local_init, step_counter, global_step, entry_step,
                   processed, calls, late, checkpoint, savers, memory>>

\* worker.py:209
SvStop(p) ==
    /\ pc[p] = "sv_stop"
    /\ Called(p, "stop")
    /\ should_stop' = [should_stop EXCEPT ![p] = TRUE]
    /\ Goto(p, "exit_session")
    /\ UNCHANGED <<config, role, servers, env, trainer, sess, exc, exitcode, message,
                   var_init, local_init, step_counter, global_step, entry_step, processed,
                   late, checkpoint, savers, memory>>

\* a managed_session that closes the session only when the body ended normally
SessionReleaseOnSuccess(p) ==
    IF sess[p] = "open" /\ ~exc[p]
      THEN /\ sess' = [sess EXCEPT ![p] = "closed"]
           /\ Called(p, "release")
      ELSE UNCHANGED <<sess, calls>>

\* the end of the scope of worker.py:193: the session that was handed to the
\* body is closed
SessionRelease(p) ==
    IF sess[p] = "open"
      THEN /\ sess' = [sess EXCEPT ![p] = "closed"]
           /\ Called(p, "release")
      ELSE UNCHANGED <<sess, calls>>

\* the with-block of worker.py:193 is left: managed_session requests the stop,
\* stops the Supervisor's services, closes the session, and raises again the
\* exception the body raised
ExitSession(p) ==
    /\ pc[p] = "exit_session"
    /\ should_stop' = [should_stop EXCEPT ![p] = TRUE]
    /\ SessionRelease(p)
    /\ IF exc[p]
         THEN Die(p)
         ELSE /\ Goto(p, "log")
              /\ UNCHANGED <<exitcode, message>>
    /\ UNCHANGED <<config, role, servers, env, trainer, exc, var_init, local_init,
                   step_counter, global_step, entry_step, processed, late, checkpoint,
                   savers, memory>>

\* a log line that reports the shared counter as it is when the line is written
LogExitShared(p) ==
    /\ pc[p] = "log"
    /\ message' = [message EXCEPT ![p] =
                     [kind |-> "reached", rank |-> task[p], step |-> step_counter]]
    /\ exitcode' = [exitcode EXCEPT ![p] = ExitOk]
    /\ Goto(p, "done")
    /\ UNCHANGED <<config, role, servers, env, trainer, sess, should_stop, exc, var_init,
                   local_init, step_counter, global_step, entry_step, processed, calls,
                   late, checkpoint, savers, memory>>

\* worker.py:210, then run returns
LogExit(p) ==
    /\ pc[p] = "log"
    /\ message' = [message EXCEPT ![p] =
                     [kind |-> "reached", rank |-> task[p], step |-> global_step[p]]]
    /\ exitcode' = [exitcode EXCEPT ![p] = ExitOk]
    /\ Goto(p, "done")
    /\ UNCHANGED <<config, role, servers, env, trainer, sess, should_stop, exc, var_init,
                   local_init, step_counter, global_step, entry_step, processed, calls,
                   late, checkpoint, savers, memory>>

----------------------------------------------------------------------------

Next ==
    \/ \E p \in Procs : StartPsServer(p)
    \/ \E p \in Procs : StartWorkerServer(p)
    \/ \E p \in Procs : Terminate(p)
    \/ \E p \in Procs : MakeEnv(p)
    \/ \E p \in Procs : MakeTrainer(p)
    \/ \E p \in Procs : MakeSupervisor(p)
    \/ \E p \in Procs : ChiefInitOp(p)
    \/ \E p \in Procs : init_fn(p)
    \/ \E p \in Procs : ChiefReady(p)
    \/ \E p \in Procs : WaitForSession(p)
    \/ \E p \in Procs : SaveModel(p)
    \/ \E p \in Procs : StopRequested(p)
    \/ \E p \in Procs : Sync(p)
    \/ \E p \in Procs : Start(p)
    \/ \E p \in Procs : ReadStep(p)
    \/ \E p \in Procs : FillMemory(p)
    \/ \E p \in Procs : LoopTest(p)
    \/ \E p \in Procs : Process(p)
    \/ \E p \in Procs : Refresh(p)
    \/ \E p \in Procs : EnvClose(p)
    \/ \E p \in Procs : SvStop(p)
    \/ \E p \in Procs : ExitSession(p)
    \/ \E p \in Procs : LogExit(p)

Spec == Init /\ [][Next]_vars

----------------------------------------------------------------------------
\* The run whose collaborators all return: one parameter server and two
\* workers, no call raises, every trainer.process call advances the shared
\* step, and no service of a Supervisor requests a stop.

InitLive ==
    /\ job_name = <<"ps", "worker", "worker">>
    /\ task = <<0, 0, 1>>
    /\ max_train_steps \in 0..MaxTrainSteps
    /\ reliable = TRUE
    /\ Started

\* the steps of the process p: each process is an operating-system process
\* of its own that executes Worker.run
Run(p) ==
    \/ StartPsServer(p)
    \/ StartWorkerServer(p)
    \/ MakeEnv(p)
    \/ MakeTrainer(p)
    \/ MakeSupervisor(p)
    \/ ChiefInitOp(p)
    \/ init_fn(p)
    \/ ChiefReady(p)
    \/ WaitForSession(p)
    \/ Sync(p)
    \/ Start(p)
    \/ ReadStep(p)
    \/ FillMemory(p)
    \/ LoopTest(p)
    \/ Process(p)
    \/ Refresh(p)
    \/ EnvClose(p)
    \/ SvStop(p)
    \/ ExitSession(p)
    \/ LogExit(p)

NextLive ==
    \/ \E p \in Procs : StartPsServer(p)
    \/ \E p \in Procs : StartWorkerServer(p)
    \/ \E p \in Procs : Terminate(p)
    \/ \E p \in Procs : MakeEnv(p)
    \/ \E p \in Procs : MakeTrainer(p)
    \/ \E p \in Procs : MakeSupervisor(p)
    \/ \E p \in Procs : ChiefInitOp(p)
    \/ \E p \in Procs : init_fn(p)
    \/ \E p \in Procs : ChiefReady(p)
    \/ \E p \in Procs : WaitForSession(p)
    \/ \E p \in Procs : SaveModel(p)
    \/ \E p \in Procs : Sync(p)
    \/ \E p \in Procs : Start(p)
    \/ \E p \in Procs : ReadStep(p)
    \/ \E p \in Procs : FillMemory(p)
    \/ \E p \in Procs : LoopTest(p)
    \/ \E p \in Procs : Process(p)
    \/ \E p \in Procs : Refresh(p)
    \/ \E p \in Procs : EnvClose(p)
    \/ \E p \in Procs : SvStop(p)
    \/ \E p \in Procs : ExitSession(p)
    \/ \E p \in Procs : LogExit(p)

\* every process that can take its next step eventually takes it
Fairness == \A p \in {1, 2, 3} : WF_vars(Run(p))

SpecLive == InitLive /\ [][NextLive]_vars /\ Fairness

\* A cluster of three workers in the state where every worker has entered its
\* session, has run sync and start, has read the step counter before any
\* iteration was made, and is about to test the loop condition for the first
\* time; the replay memory of no trainer needed filling.
Init3 ==
    /\ job_name = <<"ps", "worker", "worker", "worker">>
    /\ task = <<0, 0, 1, 2>>
    /\ max_train_steps \in 1..MaxTrainSteps
    /\ reliable = FALSE
    /\ pc = [p \in Procs |-> IF p = 1 THEN "join" ELSE "loop"]
    /\ role = [p \in Procs |-> IF p = 1 THEN "ps" ELSE "worker"]
    /\ servers = {<<IF p = 1 THEN "ps" ELSE "worker", task[p]>> : p \in Procs}
    /\ env = [p \in Procs |-> IF p = 1 THEN "none" ELSE "open"]
    /\ trainer = [p \in Procs |-> p # 1]
    /\ sess = [p \in Procs |-> IF p = 1 THEN "none" ELSE "open"]
    /\ should_stop = [p \in Procs |-> FALSE]
    /\ exc = [p \in Procs |-> FALSE]
    /\ exitcode = [p \in Procs |-> NoExit]
    /\ message = [p \in Procs |-> NoMessage]
    /\ var_init = variables_to_save
    /\ local_init = [p \in Procs |-> IF p = 1 THEN {} ELSE LocalVariables]
    /\ step_counter = 0
    /\ checkpoint = {}
    /\ savers = {}
    /\ memory = [p \in Procs |-> IF p = 1 THEN "unknown" ELSE "none"]
    /\ global_step = [p \in Procs |-> IF p = 1 THEN NoStep ELSE 0]
    /\ entry_step = [p \in Procs |-> IF p = 1 THEN NoStep ELSE 0]
    /\ processed = [p \in Procs |-> FALSE]
    /\ calls = [p \in Procs |->
                  IF p = 1 THEN NoCalls
                  ELSE [NoCalls EXCEPT !.make_env = 1, !.session = 1, !.sync = 1, !.start = 1,
                                       !.init_fn = IF is_chief(p) THEN 1 ELSE 0]]
    /\ late = [p \in Procs |-> 0]

\* the steps of the training loops of the workers, worker.py:203-205
Next3 ==
    \/ \E p \in Procs : LoopTest(p)
    \/ \E p \in Procs : Process(p)
    \/ \E p \in Procs : Refresh(p)

Spec3 == Init3 /\ [][Next3]_vars

\* the initial states of Spec3 as states of a whole run of that cluster
Launch3 ==
    /\ job_name = <<"ps", "worker", "worker", "worker">>
    /\ task = <<0, 0, 1, 2>>
    /\ max_train_steps \in 1..MaxTrainSteps
    /\ reliable = FALSE
    /\ Started

Run3 == Launch3 /\ [][Next]_vars

----------------------------------------------------------------------------
(* Properties *)

RECURSIVE SumOver(_, _)
SumOver(f, S) ==
    IF S = {} THEN 0
    ELSE LET x == CHOOSE y \in S : TRUE IN f[x] + SumOver(f, S \ {x})

\* C1: a worker whose global step read at loop entry (line 196) is already
\* max_train_steps or more never calls trainer.process in that run.
C1_NoIterationFromReachedStep ==
    \A p \in Procs :
        (entry_step[p] # NoStep /\ entry_step[p] >= max_train_steps)
            => (~processed[p] /\ pc[p] \notin {"process", "refresh"})

\* a worker entered its loop with the step already reached by the other
\* worker's iterations and ran to its end
C1_Witness ==
    \E p \in Procs :
        /\ max_train_steps > 0
        /\ entry_step[p] >= max_train_steps
        /\ pc[p] = "done"

\* C2 as stated: once the shared global step has reached max_train_steps, at
\* most one further trainer.process iteration is started by all the ranks
\* together.
C2_OneLateIterationInAll == SumOver(late, Procs) <= 1

\* C2 amended: while the shared global step stays at max_train_steps or above,
\* every rank starts at most one further trainer.process iteration.
C2_OneLateIterationPerRank == \A p \in Procs : late[p] <= 1

\* two ranks have each started an iteration after the step reached the maximum
C2_Witness ==
    \E p, q \in Procs :
        /\ p # q
        /\ late[p] = 1
        /\ late[q] = 1
        /\ step_counter > max_train_steps

\* C3: fill() is called exactly once when the trainer has a memory that
\* reports not full, never when it has none or reports full, and the test and
\* the call come before the first trainer.process call.
C3_FillOnceBeforeFirstIteration ==
    \A p \in Procs :
        /\ calls[p].fill = IF memory[p] = "not_full" THEN 1 ELSE 0
        /\ processed[p] => memory[p] # "unknown"
        /\ memory[p] = "unknown" => pc[p] \notin {"loop", "process", "refresh", "close"}

\* a worker filled a memory that was not full and made iterations until its end
C3_Witness ==
    \E p \in Procs :
        /\ memory[p] = "not_full"
        /\ calls[p].fill = 1
        /\ processed[p]
        /\ pc[p] = "done"

\* C4: for a worker whose environment was constructed, env.close() is called
\* exactly once per run, whether or not a step before it raised.
C4_EnvCloseOncePerRun ==
    \A p \in Procs :
        (env[p] # "none" /\ pc[p] \in {"done", "failed"}) => calls[p].close = 1

\* C5: a process with the role ps never makes an environment, a trainer or a
\* session, never calls trainer.process, and once in server.join() it stays
\* there until it is terminated.
C5_ParameterServerOnlyJoins ==
    /\ [](\A p \in Procs :
            job_name[p] = "ps" =>
                /\ pc[p] \in {"new", "join", "killed"}
                /\ role[p] # "worker"
                /\ env[p] = "none"
                /\ ~trainer[p]
                /\ sess[p] = "none"
                /\ ~processed[p]
                /\ calls[p] = NoCalls)
    /\ [][\A p \in Procs :
            (job_name[p] = "ps" /\ pc[p] = "join") =>
                \/ pc'[p] = "join"
                \/ pc'[p] = "killed" /\ exitcode'[p] = ExitTerminated]_vars

\* a parameter server blocks in join while a worker of its cluster has run to
\* its end
C5_Witness ==
    \E p, q \in Procs :
        /\ job_name[p] = "ps"
        /\ pc[p] = "join"
        /\ pc[q] = "done"
        /\ processed[q]

\* C6: a process whose job_name is neither 'ps' nor 'worker' ends in an error
\* before a server is created and enters neither branch of the dispatch.
C6_UnknownRoleRejected ==
    \A p \in Procs :
        job_name[p] \notin {"ps", "worker"} =>
            /\ role[p] = "none"
            /\ pc[p] \in {"new", "failed"}
            /\ \A a \in servers : a[2] # task[p] \/ a[1] = "ps"

\* the environment factory of p was called and raised
EnvFactoryRaised(p) == calls[p].make_env > 0 /\ env[p] = "none"

\* C7: when the environment factory raises, in either mode, the process exits
\* non-zero with a message naming its rank, the factory is not called again,
\* and no trainer, session or checkpoint of this process exists.
C7_EnvFailureIsFatal ==
    \A p \in Procs :
        /\ calls[p].make_env <= 1
        /\ EnvFactoryRaised(p) =>
              /\ pc[p] = "failed"
              /\ exitcode[p] \notin {NoExit, ExitOk}
              /\ message[p].kind \in {"failed to make BTgym environment",
                                      "failed to make Atari Gym environment"}
              /\ message[p].rank = task[p]
              /\ ~trainer[p]
              /\ sess[p] = "none"
              /\ p \notin savers
              /\ calls[p] = [NoCalls EXCEPT !.make_env = 1]

\* the factory raised for the chief in test mode and for another rank in
\* production mode; nothing was initialized and no checkpoint was written
C7_Witness ==
    \E p, q \in Procs :
        /\ EnvFactoryRaised(p)
        /\ is_chief(p)
        /\ message[p].kind = "failed to make Atari Gym environment"
        /\ EnvFactoryRaised(q)
        /\ message[q].kind = "failed to make BTgym environment"
        /\ message[q].rank = 1
        /\ var_init = {}
        /\ checkpoint = {}

\* C8: when env.close() raises, the worker still stops its Supervisor, closes
\* its session and ends with the clean exit status.
C8_CloseFailureIsBestEffort ==
    \A p \in Procs :
        (calls[p].close > 0 /\ env[p] = "open" /\ pc[p] \in {"done", "failed"}) =>
            /\ should_stop[p]
            /\ sess[p] = "closed"
            /\ exitcode[p] = ExitOk

\* C9: a rank holds a session only when every variable whose name does not
\* start with 'local' is initialized; sync, start and process run only in a
\* session; and the session is handed to a rank that is not chief with its own
\* variables still uninitialized.
C9_SessionMeansGlobalsReady ==
    \A p \in Procs :
        /\ sess[p] # "none" =>
              \A v \in GlobalVariables : ~StartsWith(v, "local") => v \in var_init
        /\ (calls[p].sync > 0 \/ calls[p].start > 0 \/ processed[p]) => sess[p] # "none"
        /\ (task[p] # 0 /\ pc[p] = "sync") => local_init[p] = {}

\* a rank that is not chief holds its session, its own variables uninitialized
C9_Witness ==
    \E p \in Procs :
        /\ task[p] # 0
        /\ pc[p] = "sync"
        /\ sess[p] = "open"
        /\ local_init[p] = {}

\* C10: init_fn is run by rank 0 only, and a rank other than 0 leaves the
\* barrier only when the global variables report ready.
C10_OnlyChiefInitializes ==
    \A p \in Procs :
        task[p] # 0 =>
            /\ calls[p].init_fn = 0
            /\ pc[p] \notin {"init_fn", "ready"}
            /\ pc[p] \in Body \cup {"exit_session", "log", "done"} => ready_op = {}

\* rank 1 has passed the barrier and runs its body, without having run init_fn,
\* while rank 0 is still between its init_op and its init_fn
C10_Witness ==
    \E p, q \in Procs :
        /\ task[p] # 0
        /\ pc[p] \in Body
        /\ calls[p].init_fn = 0
        /\ task[q] = 0
        /\ pc[q] = "init_fn"

C12_ReliableRunEndsCleanly ==
    \A p \in {2, 3} :
        (env[p] = "open") ~>
            /\ pc[p] = "done"
            /\ exitcode[p] = ExitOk
            /\ env[p] = "closed"
            /\ calls[p].close = 1
            /\ global_step[p] >= max_train_steps

\* a worker of the reliable run has iterated and ended with exit code 0
C12_Witness ==
    \E p \in Procs :
        /\ reliable
        /\ pc[p] = "done"
        /\ processed[p]
        /\ exitcode[p] = ExitOk
        /\ calls[p].close = 1
        /\ max_train_steps > 0
        /\ global_step[p] >= max_train_steps

\* C13: a worker run is handed at most one session; the session is open all
\* through the body, and when the scope of the managed session has been left,
\* normally or by an exception of the body, it has been closed by exactly one
\* release.
C13_SessionReleasedOnce ==
    \A p \in Procs :
        /\ calls[p].session <= 1
        /\ calls[p].release <= calls[p].session
        /\ (sess[p] = "open") <=> (calls[p].session = 1 /\ calls[p].release = 0)
        /\ (sess[p] = "closed") <=> (calls[p].release = 1)
        /\ pc[p] \in Body => sess[p] = "open"
        /\ (pc[p] = "exit_session" /\ calls[p].session = 1) => sess[p] = "open"
        /\ (pc[p] \in {"log", "done", "failed"} /\ calls[p].session = 1) =>
               calls[p].release = 1

\* one worker has ended by an exception of its body and another one by the
\* normal exit of the loop, each with its session released once
C13_Witness ==
    \E p, q \in Procs :
        /\ pc[p] = "failed"
        /\ exc[p]
        /\ calls[p].session = 1
        /\ calls[p].release = 1
        /\ pc[q] = "done"
        /\ calls[q].release = 1

\* C14: only the worker of rank 0 writes checkpoints, a checkpoint holds no
\* variable named local*, and a checkpoint is written only while the session
\* of rank 0 is open and by no step of Worker.run: no process moves and no
\* collaborator is called in the step that writes it.
C14_CheckpointsByChiefOnly ==
    /\ [](/\ \A p \in savers : task[p] = 0 /\ role[p] = "worker"
          /\ checkpoint \subseteq GlobalVariables
          /\ \A v \in checkpoint : ~StartsWith(v, "local"))
    /\ [][(checkpoint' # checkpoint \/ savers' # savers) =>
             /\ \E p \in Procs : task[p] = 0 /\ sess[p] = "open" /\ sess'[p] = "open"
             /\ pc' = pc
             /\ calls' = calls]_vars

\* rank 0 has written a checkpoint while a rank other than 0 runs its body
\* and has written none
C14_Witness ==
    \E p, q \in Procs :
        /\ savers = {p}
        /\ checkpoint # {}
        /\ task[q] # 0
        /\ pc[q] \in Body
        /\ processed[q]

\* C15: a trainer.process call either returns or its exception leaves the
\* session body; after an exception of the body the worker takes no step of
\* the body any more, and it ends failed with exit code 1 and a traceback.
C15_ProcessFailureIsFatal ==
    /\ [][\A p \in Procs :
             (pc[p] = "process" /\ pc'[p] # "process") =>
                 \/ pc'[p] = "refresh" /\ ~exc'[p]
                 \/ pc'[p] = "exit_session" /\ exc'[p]]_vars
    /\ [][\A p \in Procs : exc[p] => exc'[p] /\ calls'[p].close = calls[p].close]_vars
    /\ [](\A p \in Procs :
             exc[p] =>
                 /\ pc[p] \in {"exit_session", "failed"}
                 /\ pc[p] = "failed" =>
                        /\ exitcode[p] = ExitFailure
                        /\ exitcode[p] # ExitOk
                        /\ message[p].kind = "traceback")

\* a worker has failed by an exception raised inside the loop: it had started
\* an iteration and env.close was never called
C15_Witness ==
    \E p \in Procs :
        /\ pc[p] = "failed"
        /\ exc[p]
        /\ processed[p]
        /\ calls[p].close = 0
        /\ exitcode[p] = ExitFailure

\* C16: trainer.sync runs after the session is handed over, trainer.start
\* after trainer.sync, the read of the step after trainer.start, the warm-up
\* after the read, and the first trainer.process call after all of them.
C16_StartUpOrder ==
    \A p \in Procs :
        /\ calls[p].sync > 0 => calls[p].session = 1
        /\ calls[p].start > 0 => calls[p].sync = 1 /\ pc[p] # "sync"
        /\ entry_step[p] # NoStep => calls[p].start = 1
        /\ memory[p] # "unknown" => entry_step[p] # NoStep
        /\ calls[p].fill > 0 => memory[p] = "not_full"
        /\ (processed[p] \/ pc[p] \in {"loop", "process", "refresh"}) =>
               /\ calls[p].sync = 1
               /\ calls[p].start = 1
               /\ memory[p] # "unknown"
               /\ memory[p] = "not_full" => calls[p].fill = 1

\* a worker with a replay memory that was not full is inside its first
\* trainer.process call, after one sync, one start and one fill
C16_Witness ==
    \E p \in Procs :
        /\ pc[p] = "process"
        /\ global_step[p] = entry_step[p]
        /\ calls[p].sync = 1
        /\ calls[p].start = 1
        /\ memory[p] = "not_full"
        /\ calls[p].fill = 1

\* C17: the step a rank has observed is never over the shared counter.
C17_ObservedStepFollowsCounter ==
    \A p \in Procs : global_step[p] <= step_counter

\* C18: env.close is called once, after the last trainer.process call has
\* returned; sv.stop is called only after env.close was called and returned;
\* the session is released after sv.stop on the normal path; a worker that
\* logs its exit has gone through all three.
C18_ShutdownOrder ==
    \A p \in Procs :
        /\ calls[p].close > 0 =>
               /\ calls[p].close = 1
               /\ pc[p] \in {"sv_stop", "exit_session", "log", "done", "failed"}
        /\ calls[p].stop > 0 =>
               /\ calls[p].stop = 1
               /\ calls[p].close = 1
               /\ env[p] = "closed"
               /\ pc[p] \in {"exit_session", "log", "done"}
        /\ (calls[p].release > 0 /\ ~exc[p]) => calls[p].stop = 1
        /\ pc[p] \in {"log", "done"} =>
               /\ calls[p].close = 1
               /\ calls[p].stop = 1
               /\ calls[p].release = 1

\* a worker that has iterated has gone through the whole shutdown
C18_Witness ==
    \E p \in Procs :
        /\ pc[p] = "done"
        /\ processed[p]
        /\ env[p] = "closed"
        /\ calls[p].stop = 1
        /\ sess[p] = "closed"

\* C19: a worker leaves its loop only when its stop flag is set or the step it
\* last read is at or over the threshold; the step is not read again after
\* the loop, and the exit line logs that step; a worker that has left the
\* loop with its stop flag not set holds a step at or over the threshold.
C19_ExitConditionObserved ==
    /\ [][\A p \in Procs :
             /\ (pc[p] = "loop" /\ pc'[p] = "close") =>
                    (should_stop[p] \/ global_step[p] >= max_train_steps)
             /\ pc[p] \in {"close", "sv_stop", "exit_session", "log"} =>
                    global_step'[p] = global_step[p]]_vars
    /\ [](\A p \in Procs :
             /\ (pc[p] \in {"close", "sv_stop"} /\ ~should_stop[p]) =>
                    global_step[p] >= max_train_steps
             /\ pc[p] = "done" =>
                    message[p] = [kind |-> "reached", rank |-> task[p],
                                  step |-> global_step[p]])

\* a worker that iterated has logged the step it last read, at or over the
\* threshold, while the shared counter has moved on since
C19_Witness ==
    \E p \in Procs :
        /\ pc[p] = "done"
        /\ processed[p]
        /\ message[p].step >= max_train_steps
        /\ step_counter > message[p].step

\* C20: a worker goes through sync, start, the read of the step and the
\* warm-up (fill exactly when the memory is not full) before its first loop
\* test, whatever the stop flag and the step are; when the exit condition
\* holds at that first test it starts no trainer.process call, and it then
\* ends with env.close and sv.stop called once each.
C20_ExitAtEntryStillStartsUp ==
    /\ [](\A p \in Procs :
             /\ pc[p] \in {"loop", "close", "sv_stop", "log", "done"} =>
                    /\ calls[p].sync = 1
                    /\ calls[p].start = 1
                    /\ entry_step[p] # NoStep
                    /\ memory[p] # "unknown"
                    /\ calls[p].fill = IF memory[p] = "not_full" THEN 1 ELSE 0
             /\ (entry_step[p] # NoStep /\ entry_step[p] >= max_train_steps) =>
                    ~processed[p]
             /\ (pc[p] = "done" /\ ~processed[p]) =>
                    /\ calls[p].close = 1
                    /\ calls[p].stop = 1
                    /\ env[p] = "closed")
    /\ [][\A p \in Procs :
             (/\ pc[p] = "loop"
              /\ ~processed[p]
              /\ (should_stop[p] \/ global_step[p] >= max_train_steps)
              /\ pc'[p] # "loop") =>
                 (pc'[p] = "close" /\ ~processed'[p])]_vars

\* a worker whose stop flag was set before its first loop test has ended
\* below the threshold without an iteration, after sync, start and one fill
C20_Witness ==
    \E p \in Procs :
        /\ pc[p] = "done"
        /\ ~processed[p]
        /\ entry_step[p] < max_train_steps
        /\ calls[p].sync = 1
        /\ calls[p].start = 1
        /\ memory[p] = "not_full"
        /\ calls[p].fill = 1
        /\ calls[p].close = 1

====
